---- MODULE Spec2Model ----
(***************************************************************************)
(* The render cycle of StreamlitDashboard.py: one run of the script over   *)
(* one CSV file and one setting of the sidebar widgets.                    *)
(*                                                                         *)
(* A column name is a sequence of one-character strings, so that lower()   *)
(* and the substring tests of the column inference are computed, not       *)
(* assumed.  A timestamp is a pair <<day, tick>>; a raw CSV row carries a  *)
(* date cell (a timestamp, or text that pd.to_datetime rejects), a price   *)
(* cell (<<v>>, or <<>> for an empty cell) and a ticker cell.              *)
(***************************************************************************)
EXTENDS Integers, Sequences, FiniteSets

VARIABLES
    header,               \* the header of the CSV that was read, in file order
    pc,                   \* position of the script
    columns,              \* df.columns
    df,                   \* the rows of df, in order: the raw cells [d, p, t]
                          \* as read, [Fecha, raw] once indexed, and from line
                          \* 62 on the columns read later:
                          \* [Fecha, Precio_Cierre, Ticker]
    date_col,             \* date_cols[0], or <<>> before it is chosen
    price_col_name,       \* price_cols[0], or <<>>
    ticker_col,           \* ticker_cols[0], or <<>> when none was found
    ticker_seleccionado,  \* the multiselect's value
    start_date, end_date, \* the date filter
    df_filtrado,          \* the filtered view
    kpis,                 \* the KPI values computed at lines 111-123
    df_retornos_ticker,   \* the frame of line 172
    exc,                  \* the exception in flight or handled, "" when none
    out                   \* what the cycle has put on the page, in order

vars == <<header, pc, columns, df, date_col, price_col_name,
          ticker_col, ticker_seleccionado, start_date, end_date, df_filtrado,
          kpis, df_retornos_ticker, exc, out>>

---------------------------------------------------------------------------
(* Bounds of the model. *)

MaxRows == 3

---------------------------------------------------------------------------
(* str.lower() and the `in` substring test on column names. *)

UpperChars == <<"A","B","C","D","E","F","G","H","I","J","K","L","M",
                "N","O","P","Q","R","S","T","U","V","W","X","Y","Z">>

LowerChars == <<"a","b","c","d","e","f","g","h","i","j","k","l","m",
                "n","o","p","q","r","s","t","u","v","w","x","y","z">>

LowerOf ==
    [ch \in { UpperChars[i] : i \in 1..Len(UpperChars) } |->
        LowerChars[CHOOSE i \in 1..Len(UpperChars) : UpperChars[i] = ch]]

(* The ASCII characters that str.lower() leaves as they are: the small   *)
(* letters, the digits, the printable ASCII characters that are neither  *)
(* letter nor digit, and tab, line feed, carriage return and form feed.  *)
(* The grave accent and the other control characters cannot be written   *)
(* in a string here and are left out.                                    *)
AsciiUnchanged ==
    { LowerChars[i] : i \in 1..Len(LowerChars) }
        \cup { "0","1","2","3","4","5","6","7","8","9" }
        \cup { " ", "!", "\"", "#", "$", "%", "&", "'", "(", ")", "*",
               "+", ",", "-", ".", "/", ":", ";", "<", "=", ">", "?",
               "@", "[", "\\", "]", "^", "_", "{", "|", "}", "~" }
        \cup { "\t", "\n", "\r", "\f" }

(* str.lower() on one character of the set above or one of A..Z. Column  *)
(* names are ASCII here: the lower case of any other character is left   *)
(* undefined, not guessed.                                               *)
LowerChar(ch) ==
    IF ch \in DOMAIN LowerOf THEN LowerOf[ch]
    ELSE CASE ch \in AsciiUnchanged -> ch

lower(s) == [i \in 1..Len(s) |-> LowerChar(s[i])]

Contains(sub, s) ==
    \E i \in 1..(Len(s) - Len(sub) + 1) : SubSeq(s, i, i + Len(sub) - 1) = sub

IsDateName(c) ==
    \/ Contains(<<"d","a","t","e">>, lower(c))
    \/ Contains(<<"f","e","c","h","a">>, lower(c))
    \/ Contains(<<"t","i","m","e">>, lower(c))

IsPriceName(c) ==
    \/ Contains(<<"c","l","o","s","e">>, lower(c))
    \/ Contains(<<"p","r","e","c","i","o">>, lower(c))
    \/ Contains(<<"p","r","i","c","e">>, lower(c))

IsTickerName(c) ==
    \/ Contains(<<"t","i","c","k","e","r">>, lower(c))
    \/ Contains(<<"s","y","m","b","o","l">>, lower(c))
    \/ Contains(<<"s","i","m","b","o","l","o">>, lower(c))

date_cols(cols) == SelectSeq(cols, IsDateName)

price_cols(cols) == SelectSeq(cols, IsPriceName)

ticker_cols(cols) == SelectSeq(cols, IsTickerName)

(* The names the script itself gives to columns. *)
Fecha == <<"F","e","c","h","a">>

Precio_Cierre == <<"P","r","e","c","i","o","_","C","i","e","r","r","e">>

Ticker == <<"T","i","c","k","e","r">>

STOCK_PRINCIPAL == "STOCK_PRINCIPAL"

---------------------------------------------------------------------------
(* The inputs: headers and rows. *)

N_Date == <<"D","a","t","e">>

N_Close == <<"C","l","o","s","e">>

N_Trade_Date == <<"T","r","a","d","e","_","D","a","t","e">>

N_Close_USD == <<"C","l","o","s","e","_","U","S","D">>

N_Symbol == <<"S","y","m","b","o","l">>

N_Precio == <<"P","R","E","C","I","O">>

N_Volume == <<"V","o","l","u","m","e">>

N_Symbol_Close == <<"S","y","m","b","o","l","_","C","l","o","s","e">>

N_Timestamp == <<"T","i","m","e","s","t","a","m","p">>

N_Adj_Price == <<"A","d","j","_","P","r","i","c","e">>

N_Simbolo == <<"S","I","M","B","O","L","O">>

(* The header of the data runs. *)
DataHeaders == { <<N_Date, N_Close, Ticker>> }

(* A header without a ticker column, and with a column named Fecha. *)
NoTickerHeaders == { <<Fecha, N_Precio>> }

(* Headers of the inference runs: every role missing, doubled, reordered, *)
(* and one name that matches two patterns.                                *)
InferenceHeaders ==
    { <<N_Trade_Date, N_Close_USD, N_Symbol>>,
      <<N_Close, Ticker>>,
      <<N_Date, Ticker>>,
      <<N_Volume, Ticker>>,
      <<N_Volume, N_Simbolo, N_Timestamp, N_Date, N_Adj_Price, N_Close, Ticker>>,
      <<N_Date, N_Symbol_Close, Ticker>>,
      <<N_Date, N_Symbol_Close>> }

Timestamps == { <<0, 0>>, <<0, 1>>, <<1, 0>>, <<2, 0>> }

GoodDate(t) == [ok |-> TRUE, ts |-> t]

(* A date cell that pd.to_datetime cannot parse. *)
BadDate == [ok |-> FALSE, ts |-> <<0, 0>>]

TickerCells == { "A", "B" }

(* The rows of the data runs: a positive price at every timestamp for    *)
(* every ticker; a zero price on two days; an empty price cell; a date   *)
(* cell that does not parse.                                             *)
RawRows ==
    [d : { GoodDate(t) : t \in Timestamps }, p : { <<1>>, <<2>> }, t : TickerCells]
        \cup [d : { GoodDate(<<1, 0>>), GoodDate(<<2, 0>>) }, p : { <<0>> }, t : { "A" }]
        \cup [d : { GoodDate(<<1, 0>>) }, p : { <<>> }, t : { "B" }]
        \cup [d : { BadDate }, p : { <<1>> }, t : { "A" }]

(* The rows of the inference runs. *)
FewRows ==
    { [d |-> GoodDate(<<0, 0>>), p |-> <<1>>, t |-> "A"],
      [d |-> BadDate, p |-> <<1>>, t |-> "A"] }

SeqsUpTo(S, n) == UNION { [1..k -> S] : k \in 0..n }

(* What pd.read_csv puts in column c of row r: every date-like column   *)
(* carries the row's date cell, every other price-like column its price *)
(* cell, every other ticker-like column its ticker cell.                *)
Cell(r, c) ==
    IF IsDateName(c) THEN r.d
    ELSE IF IsPriceName(c) THEN r.p
    ELSE IF IsTickerName(c) THEN r.t
    ELSE "x"

---------------------------------------------------------------------------
(* Timestamps, and DataFrame.sort_index() at line 42. *)

date(ts) == ts[1]

TsLeq(a, b) == a[1] < b[1] \/ (a[1] = b[1] /\ a[2] <= b[2])

(* r goes after every row whose Fecha is not later: rows of equal Fecha *)
(* keep their file order, as numpy's sort does on short arrays.         *)
RECURSIVE InsertByFecha(_, _)
InsertByFecha(s, r) ==
    IF s = <<>> THEN <<r>>
    ELSE IF TsLeq(s[Len(s)].Fecha, r.Fecha) THEN Append(s, r)
    ELSE Append(InsertByFecha(SubSeq(s, 1, Len(s) - 1), r), s[Len(s)])

RECURSIVE sort_index(_)
sort_index(s) ==
    IF s = <<>> THEN <<>>
    ELSE InsertByFecha(sort_index(SubSeq(s, 1, Len(s) - 1)), s[Len(s)])

---------------------------------------------------------------------------
(* Numbers: exact fractions n/d in lowest terms with d > 0, and the two   *)
(* floating-point values the script can also produce, inf and NaN.        *)

Abs(x) == IF x < 0 THEN -x ELSE x

RECURSIVE GCD(_, _)
GCD(a, b) == IF b = 0 THEN a ELSE GCD(b, a % b)

NaN == [k |-> "nan", n |-> 0, d |-> 0]

Inf(sign) == [k |-> "inf", n |-> sign, d |-> 0]

Num(n, d) ==
    LET g == GCD(Abs(n), Abs(d))
        sg == IF d < 0 THEN -1 ELSE 1
    IN  [k |-> "num", n |-> sg * (n \div g), d |-> sg * (d \div g)]

Whole(n) == Num(n, 1)

Sign(x) == IF x.n > 0 THEN 1 ELSE IF x.n < 0 THEN -1 ELSE 0

FAdd(x, y) ==
    IF x.k = "nan" \/ y.k = "nan" THEN NaN
    ELSE IF x.k = "inf" /\ y.k = "inf" THEN (IF x.n = y.n THEN x ELSE NaN)
    ELSE IF x.k = "inf" THEN x
    ELSE IF y.k = "inf" THEN y
    ELSE Num(x.n * y.d + y.n * x.d, x.d * y.d)

FNeg(x) == IF x.k = "nan" THEN NaN ELSE [x EXCEPT !.n = -x.n]

FSub(x, y) == FAdd(x, FNeg(y))

FMul(x, y) ==
    IF x.k = "nan" \/ y.k = "nan" THEN NaN
    ELSE IF x.k = "inf" \/ y.k = "inf"
         THEN (IF Sign(x) * Sign(y) = 0 THEN NaN ELSE Inf(Sign(x) * Sign(y)))
    ELSE Num(x.n * y.n, x.d * y.d)

FDiv(x, y) ==
    IF x.k = "nan" \/ y.k = "nan" THEN NaN
    ELSE IF x.k = "inf" THEN (IF y.k = "inf" THEN NaN
                              ELSE Inf(IF Sign(y) < 0 THEN -x.n ELSE x.n))
    ELSE IF y.k = "inf" THEN Whole(0)
    ELSE IF y.n = 0 THEN (IF x.n = 0 THEN NaN ELSE Inf(Sign(x)))
    ELSE Num(x.n * y.d, x.d * y.n)

RECURSIVE FSum(_)
FSum(s) == IF s = <<>> THEN Whole(0) ELSE FAdd(FSum(SubSeq(s, 1, Len(s) - 1)), s[Len(s)])

(* Series.mean(): NaN for an empty series. *)
mean(s) == IF s = <<>> THEN NaN ELSE FDiv(FSum(s), Whole(Len(s)))

(* The square of Series.std() (ddof = 1): NaN for fewer than two values. *)
var(s) ==
    IF Len(s) < 2 THEN NaN
    ELSE LET m == mean(s)
             sq == [i \in 1..Len(s) |-> FMul(FSub(m, s[i]), FSub(m, s[i]))]
         IN  FDiv(FSum(sq), Whole(Len(s) - 1))

(* Series.pct_change() on a series without NaN: x[i] / x[i-1] - 1, NaN first. *)
pct_change(s) ==
    [i \in 1..Len(s) |-> IF i = 1 THEN NaN ELSE FSub(FDiv(s[i], s[i - 1]), Whole(1))]

NotNaN(x) == x.k # "nan"

---------------------------------------------------------------------------
(* The pure steps of the pipeline. *)

Range(s) == { s[i] : i \in 1..Len(s) }

Val(r) == r.Precio_Cierre[1]

(* Lines 40-42: the parsed date column becomes the index, and df is sorted. *)
AllDatesParse(rs, c) == \A i \in 1..Len(rs) : Cell(rs[i], c).ok

to_datetime_sorted(rs, c) ==
    sort_index([i \in 1..Len(rs) |-> [Fecha |-> Cell(rs[i], c).ts, raw |-> rs[i]]])

(* Line 41: set_index('Fecha') takes the column Fecha out of df.columns. *)
set_index(cols) == SelectSeq(cols, LAMBDA c : c # Fecha)

(* Line 51: rename(columns={price_col_name: 'Precio_Cierre'}). *)
rename(cols, old) == [i \in 1..Len(cols) |-> IF cols[i] = old THEN Precio_Cierre ELSE cols[i]]

(* Lines 54-59: the column Ticker, from ticker_cols[0] or the constant. *)
with_ticker(d, pcol, tcols) ==
    [i \in 1..Len(d) |->
        [Fecha |-> d[i].Fecha,
         Precio_Cierre |-> Cell(d[i].raw, pcol),
         Ticker |-> IF tcols = <<>> THEN STOCK_PRINCIPAL ELSE Cell(d[i].raw, tcols[1])]]

(* Line 62: dropna(subset=['Precio_Cierre']). *)
dropna_price(d) == SelectSeq(d, LAMBDA r : r.Precio_Cierre # <<>>)

(* Line 68. *)
unique_tickers(d) == { r.Ticker : r \in Range(d) }

Dates(d) == { date(r.Fecha) : r \in Range(d) }

SetMin(S) == CHOOSE x \in S : \A y \in S : x <= y

SetMax(S) == CHOOSE x \in S : \A y \in S : y <= x

(* The filter with the upper date bound exclusive. *)
filtrar_fin_exclusivo(d, s, e, sel) ==
    SelectSeq(d, LAMBDA r : date(r.Fecha) >= s /\ date(r.Fecha) < e /\ r.Ticker \in sel)

(* The filter with an empty selection read as "every ticker". *)
filtrar_vacio_es_todo(d, s, e, sel) ==
    SelectSeq(d, LAMBDA r : date(r.Fecha) >= s /\ date(r.Fecha) <= e
                            /\ (sel = {} \/ r.Ticker \in sel))

(* Lines 95-99: the boolean mask keeps the rows of df, in df's order. *)
filtrar(d, s, e, sel) ==
    SelectSeq(d, LAMBDA r : date(r.Fecha) >= s /\ date(r.Fecha) <= e /\ r.Ticker \in sel)

(* Grouping by the timestamp itself, the time of day kept. *)
normalize_omitido(ts) == ts

(* DatetimeIndex.normalize(): midnight of the same day. *)
normalize(ts) == <<ts[1], 0>>

RECURSIVE SortedKeys(_)
SortedKeys(S) ==
    IF S = {} THEN <<>>
    ELSE LET m == CHOOSE x \in S : \A y \in S : TsLeq(x, y)
         IN  <<m>> \o SortedKeys(S \ {m})

Prices(v) == [i \in 1..Len(v) |-> Whole(Val(v[i]))]

(* Line 115, first half: groupby(index.normalize())['Precio_Cierre'].mean(). *)
daily_mean(v) ==
    LET keys == SortedKeys({ normalize(r.Fecha) : r \in Range(v) })
    IN  [i \in 1..Len(keys) |->
            [Fecha |-> keys[i],
             value |-> mean(Prices(SelectSeq(v, LAMBDA r : normalize(r.Fecha) = keys[i])))]]

(* Line 115, second half: .pct_change().dropna(). *)
returns_of(m) ==
    LET p == pct_change([i \in 1..Len(m) |-> m[i].value])
    IN  SelectSeq([i \in 1..Len(m) |-> [Fecha |-> m[i].Fecha, value |-> p[i]]],
                  LAMBDA x : NotNaN(x.value))

Values(s) == [i \in 1..Len(s) |-> s[i].value]

(* sqrt of a fraction is kept as the fraction under the root. *)
Sqrt(x) == IF x.k = "num" THEN [x EXCEPT !.k = "sqrt"] ELSE x

(* Lines 111-123. *)
compute_kpis(v) ==
    LET m == daily_mean(v)
        df_returns == returns_of(m)
    IN  [ultimo_precio |-> Whole(Val(v[Len(v)])),
         daily_mean |-> m,
         df_returns |-> df_returns,
         retorno_diario_promedio |-> FMul(mean(Values(df_returns)), Whole(100)),
         volatilidad_anualizada |->
             Sqrt(FMul(var(Values(df_returns)), Whole(252 * 100 * 100))),
         total_dias |-> Cardinality({ normalize(r.Fecha) : r \in Range(v) })]

(* Line 172: groupby('Ticker')['Precio_Cierre'].pct_change() is a transform: *)
(* a Series named Precio_Cierre over the index of the view.  dropna() and    *)
(* reset_index() make of it a frame of two columns.                          *)
groupby_pct_change(v) ==
    [i \in 1..Len(v) |->
        LET prev == { j \in 1..(i - 1) : v[j].Ticker = v[i].Ticker }
        IN  IF prev = {} THEN NaN
            ELSE FSub(FDiv(Whole(Val(v[i])), Whole(Val(v[SetMax(prev)]))), Whole(1))]

retornos_frame(v) ==
    LET p == groupby_pct_change(v)
    IN  [columns |-> <<Fecha, Precio_Cierre>>,
         rows |-> SelectSeq([i \in 1..Len(v) |-> <<v[i].Fecha, p[i]>>],
                            LAMBDA x : NotNaN(x[2]))]

Retorno == <<"R","e","t","o","r","n","o">>

(* Line 173: the names assigned to df_retornos_ticker.columns. *)
NewColumns == <<Fecha, Ticker, Retorno>>

(* Assigning .columns raises ValueError unless the lengths agree. *)
columns_fit(frame, names) == Len(frame.columns) = Len(names)

---------------------------------------------------------------------------
(* Page elements and the empty values of the state. *)

El(kind, detail) == [kind |-> kind, detail |-> detail]

NoKpis == <<>>

NoFrame == [columns |-> <<>>, rows |-> <<>>]

Init ==
    /\ header = <<>>
    /\ pc = "read"
    /\ columns = <<>>
    /\ df = <<>>
    /\ date_col = <<>>
    /\ price_col_name = <<>>
    /\ ticker_col = <<>>
    /\ ticker_seleccionado = {}
    /\ start_date = 0
    /\ end_date = 0
    /\ df_filtrado = <<>>
    /\ kpis = NoKpis
    /\ df_retornos_ticker = NoFrame
    /\ exc = ""
    /\ out = <<>>

---------------------------------------------------------------------------
(* The files the cycle is run on: every body under the data headers, a *)
(* few under the inference headers.                                    *)
Files ==
    (DataHeaders \X SeqsUpTo(RawRows, MaxRows))
        \cup (NoTickerHeaders \X SeqsUpTo(FewRows, MaxRows))
        \cup (InferenceHeaders \X SeqsUpTo(FewRows, 1))

(* Lines 26-30: read the file, show the format note. *)
ReadCsv ==
    /\ pc = "read"
    /\ \E file_ok \in BOOLEAN :
         IF file_ok
         THEN \E f \in Files :
                /\ header' = f[1]
                /\ columns' = f[1]
                /\ df' = f[2]
                /\ out' = out \o <<El("info", "formato")>>
                /\ pc' = "infer_date"
                /\ exc' = exc
         ELSE /\ exc' = "FileNotFoundError"
              /\ pc' = "raised"
              /\ UNCHANGED <<header, columns, df, out>>
    /\ UNCHANGED <<date_col, price_col_name, ticker_col, ticker_seleccionado,
                   start_date, end_date, df_filtrado, kpis, df_retornos_ticker>>

(* Lines 35-42 with st.stop() raising an Exception: the handler gets it. *)
InferDate_stop_capturado ==
    /\ pc = "infer_date"
    /\ LET dc == date_cols(columns)
       IN  IF dc = <<>>
           THEN /\ out' = out \o <<El("error", "sin_fecha")>>
                /\ exc' = "StopException"
                /\ pc' = "raised"
                /\ UNCHANGED <<date_col, df, columns>>
           ELSE IF ~AllDatesParse(df, dc[1])
           THEN /\ date_col' = dc[1]
                /\ exc' = "DateParseError"
                /\ pc' = "raised"
                /\ UNCHANGED <<df, columns, out>>
           ELSE /\ date_col' = dc[1]
                /\ df' = to_datetime_sorted(df, dc[1])
                /\ columns' = set_index(columns)
                /\ pc' = "infer_price"
                /\ UNCHANGED <<exc, out>>
    /\ UNCHANGED <<header, price_col_name, ticker_col,
                   ticker_seleccionado, start_date, end_date, df_filtrado,
                   kpis, df_retornos_ticker>>

(* Lines 35-42: the date column, parsed, as the sorted index. *)
InferDate ==
    /\ pc = "infer_date"
    /\ LET dc == date_cols(columns)
       IN  IF dc = <<>>
           THEN /\ out' = out \o <<El("error", "sin_fecha")>>
                /\ pc' = "stopped"
                /\ UNCHANGED <<date_col, df, columns, exc>>
           ELSE IF ~AllDatesParse(df, dc[1])
           THEN /\ date_col' = dc[1]
                /\ exc' = "DateParseError"
                /\ pc' = "raised"
                /\ UNCHANGED <<df, columns, out>>
           ELSE /\ date_col' = dc[1]
                /\ df' = to_datetime_sorted(df, dc[1])
                /\ columns' = set_index(columns)
                /\ pc' = "infer_price"
                /\ UNCHANGED <<exc, out>>
    /\ UNCHANGED <<header, price_col_name, ticker_col,
                   ticker_seleccionado, start_date, end_date, df_filtrado,
                   kpis, df_retornos_ticker>>

(* Lines 45-51: the price column, renamed to Precio_Cierre. *)
InferPrice ==
    /\ pc = "infer_price"
    /\ LET pcs == price_cols(columns)
       IN  IF pcs = <<>>
           THEN /\ out' = out \o <<El("error", "sin_precio")>>
                /\ pc' = "stopped"
                /\ UNCHANGED <<price_col_name, columns>>
           ELSE /\ price_col_name' = pcs[1]
                /\ columns' = rename(columns, pcs[1])
                /\ pc' = "infer_ticker"
                /\ out' = out
    /\ UNCHANGED <<header, df, date_col, ticker_col,
                   ticker_seleccionado, start_date, end_date, df_filtrado,
                   kpis, df_retornos_ticker, exc>>

(* Lines 54-62: the column Ticker, then the rows without a price are dropped. *)
InferTicker ==
    /\ pc = "infer_ticker"
    /\ LET tcs == ticker_cols(columns)
       IN  /\ ticker_col' = IF tcs = <<>> THEN <<>> ELSE tcs[1]
           /\ df' = dropna_price(with_ticker(df, price_col_name, tcs))
           /\ columns' = IF Ticker \in Range(columns) THEN columns
                         ELSE Append(columns, Ticker)
    /\ pc' = "sidebar"
    /\ UNCHANGED <<header, date_col, price_col_name,
                   ticker_seleccionado, start_date, end_date, df_filtrado,
                   kpis, df_retornos_ticker, exc, out>>

(* Lines 68-74: the multiselect's options are the store's tickers, and *)
(* its value is a subset of its options.                               *)
Selectable == unique_tickers(df)

(* What st.date_input can return: one date while a range is being chosen, *)
(* or a range within [min_date, max_date].                                *)
DateRanges(lo, hi) ==
    { <<s>> : s \in lo..hi } \cup { <<s, e>> : s \in lo..hi, e \in lo..hi }

ValidRanges(lo, hi) == { r \in DateRanges(lo, hi) : Len(r) = 2 => r[1] <= r[2] }

(* Lines 65-92: the widgets. On an empty store min_date and max_date are NaT: *)
(* st.date_input either rejects them or returns them.                          *)
Sidebar ==
    /\ pc = "sidebar"
    /\ IF df = <<>>
       THEN \E rejected \in BOOLEAN :
              IF rejected
              THEN /\ exc' = "DateInputError"
                   /\ pc' = "raised"
                   /\ out' = out \o <<El("sidebar", "multiselect")>>
                   /\ UNCHANGED <<ticker_seleccionado, start_date, end_date>>
              ELSE /\ ticker_seleccionado' = {}
                   /\ start_date' = 0
                   /\ end_date' = 0
                   /\ out' = out \o <<El("sidebar", "multiselect"),
                                      El("sidebar", "date_input")>>
                   /\ pc' = "filter"
                   /\ exc' = exc
       ELSE \E sel \in SUBSET Selectable :
            \E date_range \in ValidRanges(SetMin(Dates(df)), SetMax(Dates(df))) :
              /\ ticker_seleccionado' = sel
              /\ start_date' = IF Len(date_range) = 2 THEN date_range[1]
                               ELSE SetMin(Dates(df))
              /\ end_date' = IF Len(date_range) = 2 THEN date_range[2]
                             ELSE SetMax(Dates(df))
              /\ out' = out \o <<El("sidebar", "multiselect"),
                                 El("sidebar", "date_input")>>
              /\ pc' = "filter"
              /\ exc' = exc
    /\ UNCHANGED <<header, columns, df, date_col,
                   price_col_name, ticker_col, df_filtrado, kpis,
                   df_retornos_ticker>>

(* Lines 95-103: the filtered view; an empty one ends the cycle. *)
ApplyFilter ==
    /\ pc = "filter"
    /\ df_filtrado' = filtrar(df, start_date, end_date, ticker_seleccionado)
    /\ IF df_filtrado' = <<>>
       THEN /\ out' = out \o <<El("warning", "sin_datos")>>
            /\ pc' = "stopped"
       ELSE /\ out' = out
            /\ pc' = "kpis"
    /\ UNCHANGED <<header, columns, df, date_col,
                   price_col_name, ticker_col, ticker_seleccionado,
                   start_date, end_date, kpis, df_retornos_ticker, exc>>

(* Lines 107-150: the KPI values and their three cards. *)
Kpis ==
    /\ pc = "kpis"
    /\ kpis' = compute_kpis(df_filtrado)
    /\ out' = out \o <<El("header", "kpis"),
                       El("metric", "ultimo_precio"),
                       El("metric", "volatilidad_anualizada"),
                       El("metric", "total_dias")>>
    /\ pc' = "charts"
    /\ UNCHANGED <<header, columns, df, date_col,
                   price_col_name, ticker_col, ticker_seleccionado,
                   start_date, end_date, df_filtrado, df_retornos_ticker, exc>>

(* Lines 154-189: the line chart, the histogram of returns, the table. *)
Charts ==
    /\ pc = "charts"
    /\ LET frame == retornos_frame(df_filtrado)
       IN  IF columns_fit(frame, NewColumns)
           THEN /\ df_retornos_ticker' = [frame EXCEPT !.columns = NewColumns]
                /\ out' = out \o <<El("chart", "line"),
                                   El("chart", "histogram"),
                                   El("dataframe", "head")>>
                /\ pc' = "done"
                /\ exc' = exc
           ELSE /\ df_retornos_ticker' = frame
                /\ out' = out \o <<El("chart", "line")>>
                /\ exc' = "ValueError"
                /\ pc' = "raised"
    /\ UNCHANGED <<header, columns, df, date_col,
                   price_col_name, ticker_col, ticker_seleccionado,
                   start_date, end_date, df_filtrado, kpis>>

(* Lines 191-193: except Exception. st.stop() raises StopException, which *)
(* is no Exception, so a stopped cycle never comes here.                  *)
HandleException ==
    /\ pc = "raised"
    /\ out' = out \o <<El("error", exc), El("info", "csv_bien_formado")>>
    /\ pc' = "error"
    /\ UNCHANGED <<header, columns, df, date_col,
                   price_col_name, ticker_col, ticker_seleccionado,
                   start_date, end_date, df_filtrado, kpis,
                   df_retornos_ticker, exc>>

Next ==
    \/ ReadCsv
    \/ InferDate
    \/ InferPrice
    \/ InferTicker
    \/ Sidebar
    \/ ApplyFilter
    \/ Kpis
    \/ Charts
    \/ HandleException

Spec == Init /\ [][Next]_vars

---------------------------------------------------------------------------
(* Vocabulary of the properties. *)

Terminal == { "stopped", "error", "done" }

Kinds(k) == SelectSeq(out, LAMBDA e : e.kind = k)

Shown(kind, detail) == \E i \in 1..Len(out) : out[i] = El(kind, detail)

(* The file was read: the format note is the first element of the page. *)
FileRead == out # <<>> /\ out[1] = El("info", "formato")

(* The filter of lines 95-99 has been evaluated. *)
Filtrado == Shown("sidebar", "date_input") /\ pc # "filter"

(* Lines 107-150 have run. *)
KpisDone == kpis # NoKpis

(* Lines 154-173 have run. *)
ChartsDone == Shown("chart", "line")

(* No filter widget, KPI, chart or table is on the page. *)
NoPartialOutput ==
    /\ Kinds("sidebar") = <<>>
    /\ Kinds("header") = <<>>
    /\ Kinds("metric") = <<>>
    /\ Kinds("chart") = <<>>
    /\ Kinds("dataframe") = <<>>
    /\ kpis = NoKpis
    /\ df_retornos_ticker = NoFrame

(* The rows of s at the indices J, in the order of s, are exactly v. *)
IsRestriction(v, s, J) ==
    /\ Len(v) = Cardinality(J)
    /\ \A j \in J : v[Cardinality({ k \in J : k <= j })] = s[j]

(* The first column of cols among the indices I, <<>> when I is empty. *)
FirstAt(cols, I) == IF I = {} THEN <<>> ELSE cols[CHOOSE i \in I : \A j \in I : i <= j]

---------------------------------------------------------------------------
(* C1: the filtered view holds exactly the records of the store whose day *)
(* lies in [start_date, end_date] and whose ticker is selected, each once *)
(* and in the store's order, and the filter raises nothing. The selection *)
(* is always among the store's tickers: the multiselect offers no other.  *)
C1_FilterIsOrderedSelection ==
    Filtrado =>
        /\ IsRestriction(df_filtrado, df,
               { j \in 1..Len(df) :
                   /\ start_date <= date(df[j].Fecha)
                   /\ date(df[j].Fecha) <= end_date
                   /\ df[j].Ticker \in ticker_seleccionado })
        /\ ticker_seleccionado \subseteq unique_tickers(df)
        /\ pc \in { "kpis", "stopped" } => exc = ""

(* A view that leaves out one record for its date and one for its ticker. *)
C1_Witness ==
    /\ Filtrado
    /\ Len(df) = 3
    /\ Len(df_filtrado) = 1
    /\ \E j \in 1..Len(df) :
         df[j].Ticker \in ticker_seleccionado /\ date(df[j].Fecha) > end_date
    /\ \E j \in 1..Len(df) :
         df[j].Ticker \notin ticker_seleccionado /\ date(df[j].Fecha) <= end_date
    /\ pc = "kpis"

---------------------------------------------------------------------------
(* C2: when the filtered view is empty the cycle shows the "no data"     *)
(* warning and stops: no KPI, chart or table, no error message; an empty *)
(* selection gives an empty view, never every ticker.                    *)
C2_EmptyViewStops ==
    /\ (Filtrado /\ df_filtrado = <<>>) =>
          /\ pc = "stopped"
          /\ out[Len(out)] = El("warning", "sin_datos")
          /\ Len(Kinds("warning")) = 1
          /\ Kinds("error") = <<>>
          /\ exc = ""
          /\ Kinds("header") = <<>> /\ Kinds("metric") = <<>>
          /\ Kinds("chart") = <<>> /\ Kinds("dataframe") = <<>>
          /\ kpis = NoKpis
          /\ df_retornos_ticker = NoFrame
    /\ (Filtrado /\ ticker_seleccionado = {}) => df_filtrado = <<>>

(* An empty selection on a store of three records. *)
C2_Witness ==
    /\ Filtrado
    /\ ticker_seleccionado = {}
    /\ Len(df) = 3
    /\ pc = "stopped"

---------------------------------------------------------------------------
(* The raw rows of the file, while df still carries them. *)
InputRows ==
    IF df = <<>> THEN <<>>
    ELSE IF "raw" \in DOMAIN df[1] THEN [i \in 1..Len(df) |-> df[i].raw]
    ELSE IF "d" \in DOMAIN df[1] THEN df
    ELSE <<>>

HasDateColumn == \E i \in 1..Len(header) : IsDateName(header[i])

HasPriceColumn == \E i \in 1..Len(header) : IsPriceName(header[i])

InputDatesParse == \A i \in 1..Len(InputRows) : InputRows[i].d.ok

(* C3: a header without a date column ends the cycle with the            *)
(* missing-date error; otherwise a header without a price column ends it *)
(* with the missing-price error. In both cases the cycle stops there,    *)
(* that error is the one message surfaced (no other error, no warning),  *)
(* and no filter, KPI, chart or table is produced.                       *)
C3_SchemaErrorsFatal ==
    (FileRead /\ pc \in Terminal) =>
        /\ ~HasDateColumn =>
              /\ pc = "stopped"
              /\ Kinds("error") = <<El("error", "sin_fecha")>>
              /\ Kinds("warning") = <<>>
              /\ NoPartialOutput
        /\ (HasDateColumn /\ ~HasPriceColumn) =>
              /\ pc = "stopped"
              /\ Kinds("error") = <<El("error", "sin_precio")>>
              /\ Kinds("warning") = <<>>
              /\ NoPartialOutput

---------------------------------------------------------------------------
(* C4: a date cell that does not parse is never fatal to the cycle and *)
(* never yields an error message: line 40 does not raise on it and the *)
(* cycle does not reach the handler.                                   *)
C4_BadDateRowDropped ==
    (FileRead /\ HasDateColumn /\ ~InputDatesParse) =>
        /\ exc # "DateParseError"
        /\ pc \notin { "raised", "error" }
        /\ Kinds("error") = <<>>

---------------------------------------------------------------------------
(* Lines 54-62 have run. *)
TickerAssigned ==
    pc \in { "sidebar", "filter", "kpis", "charts", "done" }
        \/ (pc \in { "raised", "error" } /\ exc \in { "DateInputError", "ValueError" })
        \/ (pc = "stopped" /\ Kinds("sidebar") # <<>>)

(* C5: each role is the first column of the header that matches the     *)
(* role's own pattern; without a ticker column every record is of       *)
(* category STOCK_PRINCIPAL; the category column does not depend on the *)
(* column taken as the price.                                           *)
C5_RolesByOwnPattern ==
    TickerAssigned =>
        /\ date_col = FirstAt(header, { i \in 1..Len(header) : IsDateName(header[i]) })
        /\ price_col_name = FirstAt(header, { i \in 1..Len(header) : IsPriceName(header[i]) })
        /\ ticker_col = FirstAt(header, { i \in 1..Len(header) : IsTickerName(header[i]) })
        /\ (\A i \in 1..Len(header) : ~IsTickerName(header[i])) =>
              \A i \in 1..Len(df) : df[i].Ticker = STOCK_PRINCIPAL

---------------------------------------------------------------------------
NoZeroPrice == \A i \in 1..Len(df_filtrado) : Val(df_filtrado[i]) # 0

(* C6: the return-distribution step yields {date, category, return}     *)
(* tuples, one for every record of the view but the first record of     *)
(* each category: (records) - (categories) of them when no value is     *)
(* zero, each with the category of its record.                          *)
C6_ReturnTuples ==
    ChartsDone =>
        /\ exc = ""
        /\ df_retornos_ticker.columns = NewColumns
        /\ \A i \in 1..Len(df_retornos_ticker.rows) :
             /\ Len(df_retornos_ticker.rows[i]) = 3
             /\ df_retornos_ticker.rows[i][2] \in unique_tickers(df_filtrado)
        /\ NoZeroPrice =>
             Len(df_retornos_ticker.rows)
                 = Len(df_filtrado) - Cardinality(unique_tickers(df_filtrado))

---------------------------------------------------------------------------
(* The records of the view on day d, and the sum of their prices. *)
OnDay(d) == { i \in 1..Len(df_filtrado) : date(df_filtrado[i].Fecha) = d }

RECURSIVE SumPrices(_)
SumPrices(I) ==
    IF I = {} THEN 0
    ELSE LET i == CHOOSE x \in I : TRUE
         IN  Val(df_filtrado[i]) + SumPrices(I \ { i })

NoZeroMean == \A d \in Dates(df_filtrado) : SumPrices(OnDay(d)) # 0

(* C7: the daily mean series has one element per calendar day of the    *)
(* view, in day order, the mean of that day's prices over all           *)
(* categories; when no daily mean is zero the returns are one per day   *)
(* after the first, (m[i] - m[i-1]) / m[i-1], total_dias - 1 of them;   *)
(* one day gives no return.                                             *)
C7_DailyMeanAndReturns ==
    KpisDone =>
        LET m == kpis.daily_mean
            r == kpis.df_returns
        IN  /\ kpis.total_dias = Cardinality(Dates(df_filtrado))
            /\ Len(m) = kpis.total_dias
            /\ { m[i].Fecha : i \in 1..Len(m) }
                  = { <<d, 0>> : d \in Dates(df_filtrado) }
            /\ \A i \in 1..Len(m) : \A j \in 1..Len(m) :
                 i < j => m[i].Fecha[1] < m[j].Fecha[1]
            /\ \A i \in 1..Len(m) :
                 /\ m[i].value.k = "num"
                 /\ m[i].value.n * Cardinality(OnDay(m[i].Fecha[1]))
                       = m[i].value.d * SumPrices(OnDay(m[i].Fecha[1]))
            /\ NoZeroMean =>
                 /\ Len(r) = kpis.total_dias - 1
                 /\ \A i \in 1..Len(r) :
                      LET a == m[i].value
                          b == m[i + 1].value
                      IN  /\ r[i].Fecha = m[i + 1].Fecha
                          /\ r[i].value.k = "num"
                          /\ r[i].value.n * (b.d * a.n)
                                = r[i].value.d * (b.n * a.d - a.n * b.d)
            /\ kpis.total_dias = 1 => r = <<>>

(* Three records on two days, two of them at different times of one day *)
(* and of different tickers, with different prices.                     *)
C7_Witness ==
    /\ KpisDone
    /\ Len(df_filtrado) = 3
    /\ kpis.total_dias = 2
    /\ df_filtrado[1].Fecha = <<0, 0>>
    /\ df_filtrado[2].Fecha = <<0, 1>>
    /\ df_filtrado[1].Ticker # df_filtrado[2].Ticker
    /\ Val(df_filtrado[1]) # Val(df_filtrado[2])
    /\ Len(kpis.df_returns) = 1
    /\ kpis.df_returns[1].value = Num(1, 3)

---------------------------------------------------------------------------
(* C8: neither KPI shown is ever NaN: the average daily return when the *)
(* view has no return, the volatility when it has fewer than two.       *)
C8_KpisNeverNaN ==
    (KpisDone /\ Shown("metric", "ultimo_precio")
              /\ Shown("metric", "volatilidad_anualizada")) =>
        /\ kpis.retorno_diario_promedio.k # "nan"
        /\ kpis.volatilidad_anualizada.k # "nan"

---------------------------------------------------------------------------
(* C9: a failure raised anywhere in the cycle is caught by the handler  *)
(* and becomes exactly one error message that carries its detail; the   *)
(* deliberate stops (missing column, empty view) do not.                *)
C9_FailuresBecomeOneMessage ==
    /\ exc # "" <=> pc \in { "raised", "error" }
    /\ pc = "raised" =>
          /\ ENABLED HandleException
          /\ Kinds("error") = <<>>
    /\ pc = "error" =>
          /\ Kinds("error") = <<El("error", exc)>>
          /\ Len(out) >= 2
          /\ out[Len(out) - 1] = El("error", exc)
          /\ out[Len(out)] = El("info", "csv_bien_formado")
    /\ pc = "stopped" =>
          /\ ~Shown("info", "csv_bien_formado")
          /\ \/ Kinds("error") = <<El("error", "sin_fecha")>>
             \/ Kinds("error") = <<El("error", "sin_precio")>>
             \/ Kinds("error") = <<>> /\ Kinds("warning") = <<El("warning", "sin_datos")>>

(* A failure late in the cycle, after the KPI cards, reported. *)
C9_Witness ==
    /\ pc = "error"
    /\ exc = "ValueError"
    /\ KpisDone
    /\ out[Len(out) - 1] = El("error", "ValueError")

---------------------------------------------------------------------------
(* C10: with a well-formed file and a non-empty view the cycle runs the  *)
(* KPI cards, the line chart, the histogram and the table, in that       *)
(* order, and ends without an error message.                             *)
C10_FullRender ==
    (Filtrado /\ df_filtrado # <<>>) =>
        /\ pc \notin { "raised", "error", "stopped" }
        /\ Kinds("error") = <<>>
        /\ pc = "done" =>
              Kinds("chart") \o Kinds("dataframe")
                  = <<El("chart", "line"), El("chart", "histogram"),
                      El("dataframe", "head")>>

====
